---- MODULE Spec2Model ----
(***************************************************************************)
(* Model of the stringly-typed crate: the dynamic Value union, the         *)
(* StringlyTyped accessor trait, its implementations for the primitive     *)
(* types (impl_primitive_type!) and the implementation the custom derive   *)
(* generates for a struct (stringly_typed in stringly-typed-derive).       *)
(*                                                                         *)
(* Representation.                                                         *)
(*   - an i64 is an integer; an f64 is one of a few decimal literals kept  *)
(*     as text (no arithmetic is ever done on it); a String is a string;   *)
(*   - a struct is a record of its fields;                                 *)
(*   - Value::Integer(n) is [Integer |-> n], Value::Double(d) is           *)
(*     [Double |-> d], Value::String(s) is [String |-> s] and              *)
(*     Value::__NonExhaustive is [NonExhaustive |-> TRUE];                 *)
(*   - Ok(v) is [Ok |-> v], Err(e) is [Err |-> e] with e a record named    *)
(*     after the UpdateError variant, and a panic is [Panic |-> message];  *)
(*   - a key string is a sequence of pieces, each either the delimiter     *)
(*     "." or a piece of text without a delimiter.                         *)
(*                                                                         *)
(* The derive emits methods named get and set that take the key iterator;  *)
(* they are modelled as the struct's sequence-based get_value / set_value, *)
(* and the call self.field.get(keys) / self.field.set(keys, value) they    *)
(* make as the field's sequence-based operation on the rest of the keys.   *)
(***************************************************************************)
EXTENDS Integers, Sequences, FiniteSets, TLC

VARIABLES ty, thing, call

vars == <<ty, thing, call>>

(* ---------------------------- bounds ----------------------------------- *)

MaxPathLen == 3
MaxKeyLen == 4

(* ------------------------- type tags ----------------------------------- *)

DOUBLE_TYPE == "double"
INTEGER_TYPE == "integer"
STRING_TYPE == "string"

(* --------------------------- the types --------------------------------- *)

PrimitiveTypes == {"i64", "f64", "String"}

StructTypes == {"Outer", "Inner"}

Types == PrimitiveTypes \cup StructTypes

\* the fields of a struct, in declaration order
field_names(t) ==
  IF t = "Outer" THEN <<"inner">>
  ELSE IF t = "Inner" THEN <<"x", "y">>
  ELSE <<>>

\* the declared type of a field
field_type(t, f) ==
  IF t = "Outer" /\ f = "inner" THEN "Inner"
  ELSE IF t = "Inner" /\ f = "x" THEN "f64"
  ELSE IF t = "Inner" /\ f = "y" THEN "i64"
  ELSE "none"

\* the Value variant an impl_primitive_type! invocation names
variant_of(t) ==
  IF t = "i64" THEN "Integer"
  ELSE IF t = "f64" THEN "Double"
  ELSE "String"

\* StringlyTyped::data_type of a primitive or of a derived struct
data_type(t) ==
  IF t = "i64" THEN INTEGER_TYPE
  ELSE IF t = "f64" THEN DOUBLE_TYPE
  ELSE IF t = "String" THEN STRING_TYPE
  ELSE t

(* --------------------------- the values -------------------------------- *)

IntegerValues == {-7, 0, 42}
DoubleValues == {"0.0", "3.14"}
StringValues == {"before", "after"}

Objects(t) ==
  IF t = "i64" THEN IntegerValues
  ELSE IF t = "f64" THEN DoubleValues
  ELSE IF t = "String" THEN StringValues
  ELSE IF t = "Inner" THEN [x : DoubleValues, y : IntegerValues]
  ELSE [inner : [x : DoubleValues, y : IntegerValues]]

Value ==
  {[Integer |-> n] : n \in IntegerValues}
    \cup {[Double |-> d] : d \in DoubleValues}
    \cup {[String |-> s] : s \in StringValues}
    \cup {[NonExhaustive |-> TRUE]}

Unreachable == [Panic |-> "unreachable"]

\* Value::data_type
value_data_type(value) ==
  IF "Integer" \in DOMAIN value THEN INTEGER_TYPE
  ELSE IF "Double" \in DOMAIN value THEN DOUBLE_TYPE
  ELSE IF "String" \in DOMAIN value THEN STRING_TYPE
  ELSE "unreachable"

\* From<i64>, From<f64>, From<String> for Value
value_from(t, other) ==
  IF t = "i64" THEN [Integer |-> other]
  ELSE IF t = "f64" THEN [Double |-> other]
  ELSE [String |-> other]

(* ------------------------ results and errors --------------------------- *)

Ok(v) == [Ok |-> v]
Err(e) == [Err |-> e]
Unit == [Unit |-> TRUE]

TypeError(found, expected) == [TypeError |-> [found |-> found, expected |-> expected]]
TooManyKeys(n) == [TooManyKeys |-> [elements_remaning |-> n]]
UnknownField(fields) == [UnknownField |-> [valid_fields |-> fields]]
CantSerialize(name) == [CantSerialize |-> [data_type |-> name]]
NotEnoughKeys == [NotEnoughKeys |-> TRUE]

(* ------------------- impl_primitive_type! (src/lib.rs) ------------------ *)

\* variant: the key that triggered the check is left out of the count
primitive_get_value_short_count(t, self, keys) ==
  IF keys # <<>>
    THEN Err(TooManyKeys(Len(Tail(keys))))
    ELSE Ok(value_from(t, self))

\* get_value of i64, f64 and String: any key at all is one too many
primitive_get_value(t, self, keys) ==
  IF keys # <<>>
    THEN Err(TooManyKeys(Len(Tail(keys)) + 1))
    ELSE Ok(value_from(t, self))

\* Default::default() of a primitive
zero(t) == IF t = "i64" THEN 0 ELSE IF t = "f64" THEN "0.0" ELSE ""

\* variant: the receiver is cleared before the value's kind is looked at
primitive_set_value_clear_first(t, self, keys, value) ==
  IF keys # <<>>
    THEN [result |-> Err(TooManyKeys(Len(Tail(keys)) + 1)), self |-> self]
    ELSE IF variant_of(t) \in DOMAIN value
      THEN [result |-> Ok(Unit), self |-> value[variant_of(t)]]
      ELSE IF value_data_type(value) = "unreachable"
        THEN [result |-> Unreachable, self |-> zero(t)]
        ELSE [result |-> Err(TypeError(value_data_type(value), data_type(t))),
              self |-> zero(t)]

\* variant: a matching value is accepted and never stored
primitive_set_value_no_store(t, self, keys, value) ==
  IF keys # <<>>
    THEN [result |-> Err(TooManyKeys(Len(Tail(keys)) + 1)), self |-> self]
    ELSE IF variant_of(t) \in DOMAIN value
      THEN [result |-> Ok(Unit), self |-> self]
      ELSE IF value_data_type(value) = "unreachable"
        THEN [result |-> Unreachable, self |-> self]
        ELSE [result |-> Err(TypeError(value_data_type(value), data_type(t))),
              self |-> self]

\* variant: found and expected change places
primitive_set_value_swapped(t, self, keys, value) ==
  IF keys # <<>>
    THEN [result |-> Err(TooManyKeys(Len(Tail(keys)) + 1)), self |-> self]
    ELSE IF variant_of(t) \in DOMAIN value
      THEN [result |-> Ok(Unit), self |-> value[variant_of(t)]]
      ELSE IF value_data_type(value) = "unreachable"
        THEN [result |-> Unreachable, self |-> self]
        ELSE [result |-> Err(TypeError(data_type(t), value_data_type(value))),
              self |-> self]

\* set_value of i64, f64 and String; answers the result and the receiver
\* as the call leaves it
primitive_set_value(t, self, keys, value) ==
  IF keys # <<>>
    THEN [result |-> Err(TooManyKeys(Len(Tail(keys)) + 1)), self |-> self]
    ELSE IF variant_of(t) \in DOMAIN value
      THEN [result |-> Ok(Unit), self |-> value[variant_of(t)]]
      ELSE IF value_data_type(value) = "unreachable"
        THEN [result |-> Unreachable, self |-> self]
        ELSE [result |-> Err(TypeError(value_data_type(value), data_type(t))),
              self |-> self]

(* ------------- the derived implementation (stringly-typed-derive) ------- *)

RECURSIVE get_value(_, _, _)
RECURSIVE set_value(_, _, _, _)

InSeq(e, seq) == \E i \in 1..Len(seq) : seq[i] = e

\* variant: the field is handed the keys with the consumed one still in front
derive_get_keeps_key(t, self, keys) ==
  IF keys = <<>>
    THEN Err(NotEnoughKeys)
    ELSE IF InSeq(Head(keys), field_names(t))
      THEN get_value(field_type(t, Head(keys)), self[Head(keys)], keys)
      ELSE Err(UnknownField(field_names(t)))

\* variant: only the field names declared before the last one are reported
derive_get_short_list(t, self, keys) ==
  IF keys = <<>>
    THEN Err(NotEnoughKeys)
    ELSE IF InSeq(Head(keys), field_names(t))
      THEN get_value(field_type(t, Head(keys)), self[Head(keys)], Tail(keys))
      ELSE Err(UnknownField(SubSeq(field_names(t), 1, Len(field_names(t)) - 1)))

\* impl_get: one key is consumed, the matching field gets the rest
derive_get(t, self, keys) ==
  IF keys = <<>>
    THEN Err(NotEnoughKeys)
    ELSE IF InSeq(Head(keys), field_names(t))
      THEN get_value(field_type(t, Head(keys)), self[Head(keys)], Tail(keys))
      ELSE Err(UnknownField(field_names(t)))

\* Default::default() of any type
RECURSIVE default(_)
default(t) ==
  IF t \in PrimitiveTypes THEN zero(t)
  ELSE [f \in {field_names(t)[i] : i \in 1..Len(field_names(t))} |->
          default(field_type(t, f))]

\* variant: the struct is rebuilt from its default around the updated field
derive_set_rebuilds(t, self, keys, value) ==
  IF keys = <<>>
    THEN [result |-> Err(NotEnoughKeys), self |-> self]
    ELSE IF InSeq(Head(keys), field_names(t))
      THEN LET sub == set_value(field_type(t, Head(keys)), self[Head(keys)],
                                Tail(keys), value)
           IN [result |-> sub.result,
               self |-> IF "Ok" \in DOMAIN sub.result
                          THEN [default(t) EXCEPT ![Head(keys)] = sub.self]
                          ELSE self]
      ELSE [result |-> Err(UnknownField(field_names(t))), self |-> self]

\* impl_set: one key is consumed, the matching field gets the rest and the value
derive_set(t, self, keys, value) ==
  IF keys = <<>>
    THEN [result |-> Err(NotEnoughKeys), self |-> self]
    ELSE IF InSeq(Head(keys), field_names(t))
      THEN LET sub == set_value(field_type(t, Head(keys)), self[Head(keys)],
                                Tail(keys), value)
           IN [result |-> sub.result,
               self |-> [self EXCEPT ![Head(keys)] = sub.self]]
      ELSE [result |-> Err(UnknownField(field_names(t))), self |-> self]

(* ------------------- the StringlyTyped trait (src/lib.rs) --------------- *)

get_value(t, self, keys) ==
  IF t \in PrimitiveTypes
    THEN primitive_get_value(t, self, keys)
    ELSE derive_get(t, self, keys)

set_value(t, self, keys, value) ==
  IF t \in PrimitiveTypes
    THEN primitive_set_value(t, self, keys, value)
    ELSE derive_set(t, self, keys, value)

Dot == "."

\* str::split("."): the text between delimiters, empty pieces included
RECURSIVE split_from(_, _)
split_from(rest, cur) ==
  IF rest = <<>> THEN <<cur>>
  ELSE IF Head(rest) = Dot
    THEN <<cur>> \o split_from(Tail(rest), "")
    ELSE split_from(Tail(rest), cur \o Head(rest))

\* variant: empty pieces are dropped
split_drops_empty(key) == SelectSeq(split_from(key, ""), LAMBDA seg : seg # "")

split(key) == split_from(key, "")

\* StringlyTyped::get
get(t, self, key) == get_value(t, self, split(key))

\* StringlyTyped::set
set(t, self, key, value) == set_value(t, self, split(key), value)

(* ----------------------------- the calls -------------------------------- *)

Segments == {"inner", "x", "y", "Inner", "bogus", ""}

KeyPieces == {"inner", "x", "y", Dot}

SeqsUpTo(S, n) == UNION {[1..k -> S] : k \in 0..n}

Paths == SeqsUpTo(Segments, MaxPathLen)

KeyStrings == SeqsUpTo(KeyPieces, MaxKeyLen)

NoValue == [None |-> TRUE]

Init ==
  /\ ty \in Types
  /\ thing \in Objects(ty)
  /\ call = [op |-> "none", key |-> <<>>, keys |-> <<>>, value |-> NoValue,
             before |-> thing, result |-> Ok(Unit)]

\* the caller is between two calls
Idle == call.op = "none"

GetValueCall ==
  /\ Idle
  /\ \E keys \in Paths :
    /\ call' = [op |-> "get_value", key |-> <<>>, keys |-> keys, value |-> NoValue,
                before |-> thing, result |-> get_value(ty, thing, keys)]
    /\ UNCHANGED <<ty, thing>>

SetValueCall ==
  /\ Idle
  /\ \E keys \in Paths, value \in Value :
    LET r == set_value(ty, thing, keys, value)
    IN /\ thing' = r.self
       /\ call' = [op |-> "set_value", key |-> <<>>, keys |-> keys, value |-> value,
                   before |-> thing, result |-> r.result]
       /\ UNCHANGED ty

GetCall ==
  /\ Idle
  /\ \E key \in KeyStrings :
    /\ call' = [op |-> "get", key |-> key, keys |-> split(key), value |-> NoValue,
                before |-> thing, result |-> get(ty, thing, key)]
    /\ UNCHANGED <<ty, thing>>

SetCall ==
  /\ Idle
  /\ \E key \in KeyStrings, value \in Value :
    LET r == set(ty, thing, key, value)
    IN /\ thing' = r.self
       /\ call' = [op |-> "set", key |-> key, keys |-> split(key), value |-> value,
                   before |-> thing, result |-> r.result]
       /\ UNCHANGED ty

\* the caller has looked at the result and drops it; the receiver stays
Return ==
  /\ ~Idle
  /\ call' = [op |-> "none", key |-> <<>>, keys |-> <<>>, value |-> NoValue,
              before |-> thing, result |-> Ok(Unit)]
  /\ UNCHANGED <<ty, thing>>

Next == GetValueCall \/ SetValueCall \/ GetCall \/ SetCall \/ Return

Spec == Init /\ [][Next]_vars

(* --------------------- vocabulary of the properties --------------------- *)

Gets == {"get_value", "get"}
Sets == {"set_value", "set"}

IsOk(r) == "Ok" \in DOMAIN r
IsErr(r) == "Err" \in DOMAIN r
IsErrOf(r, kind) == IsErr(r) /\ kind \in DOMAIN r.Err

\* where a path ends: the keys are followed through declared fields until a
\* primitive, the end of the path or an undeclared name stops the walk
RECURSIVE Walk(_, _)
Walk(t, keys) ==
  IF t \in StructTypes /\ keys # <<>> /\ InSeq(Head(keys), field_names(t))
    THEN Walk(field_type(t, Head(keys)), Tail(keys))
    ELSE [at |-> t, rest |-> keys]

\* the paths of the primitive leaves of a type
RECURSIVE LeafPaths(_)
LeafPaths(t) ==
  IF t \in PrimitiveTypes THEN {<<>>}
  ELSE UNION {{<<field_names(t)[i]>> \o p :
                 p \in LeafPaths(field_type(t, field_names(t)[i]))} :
              i \in 1..Len(field_names(t))}

\* the content of an object at a path of field names
RECURSIVE At(_, _)
At(obj, path) == IF path = <<>> THEN obj ELSE At(obj[Head(path)], Tail(path))

\* the content a Value carries
Payload(value) == value[CHOOSE k \in DOMAIN value : TRUE]

HasKind(value) == value \in Value /\ ~("NonExhaustive" \in DOMAIN value)

\* a key string as text, and its pieces between the delimiters
RECURSIVE Str(_)
Str(pieces) == IF pieces = <<>> THEN "" ELSE Head(pieces) \o Str(Tail(pieces))

DotPositions(key) == {i \in 1..Len(key) : key[i] = Dot}

\* the position of the n-th delimiter; 0 before the first, Len + 1 after the last
Boundary(key, n) ==
  IF n = 0 THEN 0
  ELSE IF n > Cardinality(DotPositions(key)) THEN Len(key) + 1
  ELSE CHOOSE i \in DotPositions(key) :
         Cardinality({j \in DotPositions(key) : j <= i}) = n

SegmentsOf(key) ==
  [n \in 1..(Cardinality(DotPositions(key)) + 1) |->
     Str(SubSeq(key, Boundary(key, n - 1) + 1, Boundary(key, n) - 1))]

(* ------------------------------ properties ------------------------------ *)

\* C1: a get whose path runs out at a struct fails with CantSerialize carrying
\* the name of the struct at which it ran out.
C1_EmptyPathCantSerialize ==
  (call.op \in Gets /\ Walk(ty, call.keys).at \in StructTypes
     /\ Walk(ty, call.keys).rest = <<>>)
    => call.result = Err(CantSerialize(Walk(ty, call.keys).at))

\* C2: set_value is all-or-nothing: when it does not return success, every leaf
\* of the receiver holds the value it held before the call.
C2_SetAllOrNothing ==
  (call.op \in Sets /\ ~IsOk(call.result))
    => \A p \in LeafPaths(ty) : At(thing, p) = At(call.before, p)

C2_Witness ==
  /\ call.op = "set_value" /\ ty = "Outer" /\ call.keys = <<"inner", "y">>
  /\ IsErrOf(call.result, "TypeError") /\ call.before.inner.y = 42

\* C3: depth induction: a struct with declared field f answers get_value and
\* set_value on <<f>> \o rest exactly as its field f answers them on rest, and a
\* set has on the field the effect the field's own set has.
C3_DepthInduction ==
  (ty \in StructTypes /\ call.keys # <<>> /\ InSeq(Head(call.keys), field_names(ty)))
    => LET f == Head(call.keys)
           rest == Tail(call.keys)
       IN /\ call.op \in Gets
               => call.result = get_value(field_type(ty, f), call.before[f], rest)
          /\ call.op \in Sets
               => LET sub == set_value(field_type(ty, f), call.before[f], rest,
                                       call.value)
                  IN call.result = sub.result /\ thing[f] = sub.self

C3_Witness ==
  /\ ty = "Outer" /\ call.op = "get_value" /\ call.keys = <<"inner", "y", "x">>
  /\ call.result = Err(TooManyKeys(1))

\* C4: round trip: setting a primitive leaf to a value of its kind succeeds, and
\* a get of the same path right after it returns that value.
C4_RoundTrip ==
  (call.op \in Sets /\ Walk(ty, call.keys).at \in PrimitiveTypes
     /\ Walk(ty, call.keys).rest = <<>>
     /\ variant_of(Walk(ty, call.keys).at) \in DOMAIN call.value)
    => /\ call.result = Ok(Unit)
       /\ get_value(ty, thing, call.keys) = Ok(call.value)

C4_Witness ==
  /\ ty = "Outer" /\ call.op = "set_value" /\ call.keys = <<"inner", "y">>
  /\ call.value = [Integer |-> -7] /\ call.before.inner.y = 42
  /\ call.result = Ok(Unit)

\* C5: a successful set changes the leaf the path addresses to the value and
\* leaves every other leaf of the receiver as it was.
C5_SetFrame ==
  (call.op \in Sets /\ IsOk(call.result))
    => /\ call.keys \in LeafPaths(ty)
       /\ At(thing, call.keys) = Payload(call.value)
       /\ \A p \in LeafPaths(ty) \ {call.keys} : At(thing, p) = At(call.before, p)

C5_Witness ==
  /\ ty = "Outer" /\ call.op = "set_value" /\ call.keys = <<"inner", "y">>
  /\ call.value = [Integer |-> -7] /\ IsOk(call.result)
  /\ call.before.inner = [x |-> "3.14", y |-> 42]
  /\ thing.inner = [x |-> "3.14", y |-> -7]

\* C6: an empty-path set on a primitive with a value of another kind fails with
\* TypeError, expected the primitive's tag and found the value's tag, and the
\* primitive keeps its value.
C6_TypeMismatch ==
  (call.op \in Sets /\ ty \in PrimitiveTypes /\ call.keys = <<>>
     /\ HasKind(call.value) /\ ~(variant_of(ty) \in DOMAIN call.value))
    => /\ call.result =
            Err([TypeError |->
                   [expected |-> CASE ty = "i64" -> "integer"
                                   [] ty = "f64" -> "double"
                                   [] ty = "String" -> "string",
                    found |-> CASE "Integer" \in DOMAIN call.value -> "integer"
                                [] "Double" \in DOMAIN call.value -> "double"
                                [] "String" \in DOMAIN call.value -> "string"]])
       /\ thing = call.before

C6_Witness ==
  /\ ty = "i64" /\ call.op = "set_value" /\ call.keys = <<>>
  /\ call.value = [Double |-> "0.0"] /\ thing = 42
  /\ call.result = Err(TypeError("double", "integer"))

\* C7: a primitive leaf that is handed k > 0 keys fails get and set alike with
\* TooManyKeys counting k, whatever the value; behind structs k is the number of
\* keys left over at the leaf.
C7_LeafOverIndexing ==
  (call.op \in Gets \cup Sets /\ Walk(ty, call.keys).at \in PrimitiveTypes
     /\ Walk(ty, call.keys).rest # <<>>)
    => /\ call.result = Err(TooManyKeys(Len(Walk(ty, call.keys).rest)))
       /\ ty \in PrimitiveTypes => call.result = Err(TooManyKeys(Len(call.keys)))

C7_Witness ==
  /\ ty = "Inner" /\ call.op = "set_value" /\ call.keys = <<"y", "bogus", "x">>
  /\ call.value = [Double |-> "3.14"]
  /\ call.result = Err(TooManyKeys(2))

\* C8: a struct handed a non-empty path whose first key is none of its declared
\* field names fails get and set alike with UnknownField listing all its
\* declared field names in declaration order.
C8_UnknownField ==
  (call.op \in Gets \cup Sets /\ ty \in StructTypes /\ call.keys # <<>>
     /\ ~InSeq(Head(call.keys), field_names(ty)))
    => call.result =
         Err([UnknownField |->
                [valid_fields |-> IF ty = "Outer" THEN <<"inner">> ELSE <<"x", "y">>]])

C8_Witness ==
  /\ ty = "Inner" /\ call.op = "get_value" /\ call.keys = <<"Inner", "y">>
  /\ call.result = Err(UnknownField(<<"x", "y">>))

\* C9: get and set on a dotted string are get_value and set_value on the pieces
\* of the string between its dots, n dots giving n + 1 pieces.
C9_DottedEntryPoints ==
  /\ call.op = "get"
       => call.result = get_value(ty, call.before, SegmentsOf(call.key))
  /\ call.op = "set"
       => LET r == set_value(ty, call.before, SegmentsOf(call.key), call.value)
          IN call.result = r.result /\ thing = r.self

C9_Witness ==
  /\ call.op = "get" /\ ty = "Inner" /\ call.key = <<Dot, "y", Dot>>
  /\ call.result = Err(UnknownField(<<"x", "y">>))

\* C10: every call returns success or one of TypeError, TooManyKeys,
\* UnknownField, CantSerialize; none panics.
C10_OnlyFourErrorKinds ==
  call.op \in Gets \cup Sets
    => \/ IsOk(call.result)
       \/ /\ IsErr(call.result)
          /\ \E kind \in {"TypeError", "TooManyKeys", "UnknownField", "CantSerialize"} :
               kind \in DOMAIN call.result.Err

====
